---------------------------- MODULE Spec2Model ----------------------------
(***************************************************************************)
(* A model of create_standalone.py: the bundler that turns index.html and  *)
(* the files it references into one standalone.html.                       *)
(*                                                                         *)
(* Text is a sequence of atoms.  An atom is a one-character string ("x",   *)
(* " ", "\n") or a string that stands for an indivisible piece of markup   *)
(* ("<script>", a whole <script src=...></script> tag, a <link> tag).      *)
(* File names, script bodies and CSS are sequences of atoms as well, so    *)
(* that searching, splitting, replacing and suffix tests are computed the  *)
(* way the Python string methods compute them.                             *)
(***************************************************************************)
EXTENDS Integers, Sequences, FiniteSets, TLC

VARIABLES
    parser,            \* the _ScriptExtractor instance (its four fields)
    events,            \* what has been fed to the parser so far (history)
    pc,                \* position of the running program
    index_html,        \* the text of index.html on disk
    html_content,      \* compress_inline_js / inline_css: the document
    ar,                \* compress_inline_js: list(parser.scripts)
    i,                 \* loop index (script, css file or line being handled)
    script,            \* compress_inline_js: the script of the last iteration
    compressed_script, \* compress_inline_js: compress_js's result for it
    tool,              \* the last run of terser: who called it, and its outcome
    resp,              \* main: the last response of urllib3.request
    full_size,         \* global full_size
    compressed_size,   \* global compressed_size
    fs,                \* the files on disk: path -> [exists, data]
    css_files,         \* inline_css: re.findall's result
    outfile,           \* what has been written to standalone.html
    lns,               \* main: txt.split('\n')
    diff               \* __main__: the reported compression ratio

vars == <<parser, events, pc, index_html, html_content, ar, i, script,
          compressed_script, tool, resp, full_size, compressed_size, fs,
          css_files, outfile, lns, diff>>

(***************************************************************************)
(* Bounds of the model.                                                    *)
(***************************************************************************)
MaxEvents == 5      \* parser events fed in SpecExtractor
MaxItems == 3       \* pieces of the document in SpecInline
MaxCssItems == 3    \* atoms of the document in SpecCss
MaxCssTokens == 3   \* pieces of the stylesheet in SpecFonts
MaxLines == 3       \* lines of index.html in Spec

(***************************************************************************)
(* Python string methods on sequences of atoms.                            *)
(***************************************************************************)
RECURSIVE Join(_)
\* "".join(parts)
Join(parts) ==
    IF parts = <<>> THEN <<>> ELSE Head(parts) \o Join(Tail(parts))

\* s.startswith(prefix)
StartsWith(s, prefix) ==
    /\ Len(prefix) <= Len(s)
    /\ SubSeq(s, 1, Len(prefix)) = prefix

\* s.endswith(suffix)
EndsWith(s, suffix) ==
    /\ Len(suffix) <= Len(s)
    /\ SubSeq(s, Len(s) - Len(suffix) + 1, Len(s)) = suffix

\* s.find(sub, start) with 1-based positions; 0 when there is none
Find(s, sub, start) ==
    LET hits == {p \in start..(Len(s) - Len(sub) + 1) :
                    SubSeq(s, p, p + Len(sub) - 1) = sub}
    IN  IF hits = {} THEN 0 ELSE CHOOSE p \in hits : \A q \in hits : p <= q

\* new + s[0] + new + s[1] + ... + new: str.replace with an empty pattern
Interleave(s, new) ==
    LET block == Len(new) + 1
    IN  [j \in 1..(Len(s) * block + Len(new)) |->
            IF (j - 1) % block < Len(new)
            THEN new[((j - 1) % block) + 1]
            ELSE s[((j - 1) \div block) + 1]]

RECURSIVE ReplaceFrom(_, _, _, _)
ReplaceFrom(s, old, new, start) ==
    LET p == Find(s, old, start)
    IN  IF p = 0 THEN SubSeq(s, start, Len(s))
        ELSE SubSeq(s, start, p - 1) \o new
             \o ReplaceFrom(s, old, new, p + Len(old))

\* s.replace(old, new, 1): what a replace limited to one occurrence gives
ReplaceFirst(s, old, new) ==
    LET p == Find(s, old, 1)
    IN  IF p = 0 THEN s
        ELSE SubSeq(s, 1, p - 1) \o new \o SubSeq(s, p + Len(old), Len(s))

\* s.replace(old, new): every non-overlapping occurrence, leftmost first
Replace(s, old, new) ==
    IF old = <<>> THEN Interleave(s, new) ELSE ReplaceFrom(s, old, new, 1)

RECURSIVE SplitFrom(_, _, _)
SplitFrom(s, sep, start) ==
    LET p == Find(s, <<sep>>, start)
    IN  IF p = 0 THEN <<SubSeq(s, start, Len(s))>>
        ELSE <<SubSeq(s, start, p - 1)>> \o SplitFrom(s, sep, p + 1)

\* s.split(sep) for a one-atom separator
Split(s, sep) == SplitFrom(s, sep, 1)

\* str.lower() on the tag and attribute names the model uses
Lower(name) ==
    CASE name = "SCRIPT" -> "script"
      [] name = "Script" -> "script"
      [] name = "SRC" -> "src"
      [] name = "DIV" -> "div"
      [] OTHER -> name

(***************************************************************************)
(* _ScriptExtractor.  The parser is a record of the instance's fields; a   *)
(* handler maps the parser before the call to the parser after it.         *)
(***************************************************************************)
NewParser ==
    [_collect |-> FALSE, _has_src |-> FALSE, _buffer |-> <<>>, scripts |-> <<>>]

\* variant: the src attribute is not looked at
handle_starttag_nosrc(p, tag, attrs) ==
    IF Lower(tag) = "script"
    THEN [p EXCEPT !._has_src = FALSE, !._collect = TRUE, !._buffer = <<>>]
    ELSE p

handle_starttag(p, tag, attrs) ==
    IF Lower(tag) = "script"
    THEN IF \E k \in 1..Len(attrs) : Lower(attrs[k][1]) = "src"
         THEN [p EXCEPT !._has_src = TRUE, !._collect = FALSE]
         ELSE [p EXCEPT !._has_src = FALSE, !._collect = TRUE, !._buffer = <<>>]
    ELSE p

handle_endtag(p, tag) ==
    IF Lower(tag) = "script"
    THEN [_collect |-> FALSE,
          _has_src |-> FALSE,
          _buffer |-> <<>>,
          scripts |-> IF p._collect /\ ~p._has_src
                      THEN Append(p.scripts, Join(p._buffer))
                      ELSE p.scripts]
    ELSE p

handle_data(p, data) ==
    IF p._collect /\ ~p._has_src
    THEN [p EXCEPT !._buffer = Append(@, data)]
    ELSE p

\* variant: the comment's text is kept without its <!-- --> wrapper
handle_comment_bare(p, data) ==
    IF p._collect /\ ~p._has_src
    THEN [p EXCEPT !._buffer = Append(@, data)]
    ELSE p

handle_comment(p, data) ==
    IF p._collect /\ ~p._has_src
    THEN [p EXCEPT !._buffer = Append(@, <<"<", "!", "-", "-">> \o data \o <<"-", "-", ">">>)]
    ELSE p

handle_entityref(p, name) ==
    IF p._collect /\ ~p._has_src
    THEN [p EXCEPT !._buffer = Append(@, <<"&">> \o name \o <<";">>)]
    ELSE p

handle_charref(p, name) ==
    IF p._collect /\ ~p._has_src
    THEN [p EXCEPT !._buffer = Append(@, <<"&", "#">> \o name \o <<";">>)]
    ELSE p


(***************************************************************************)
(* The values the variables a specification does not use are pinned to.    *)
(***************************************************************************)
NoTool == [called |-> "none", step |-> 0, found |-> FALSE, rc |-> 0, out |-> <<>>]
NoResp == [line |-> 0, status |-> 0]
NoRatio == [ok |-> TRUE, num |-> 0, den |-> 1]

(***************************************************************************)
(* SpecExtractor: any sequence of handler calls on a fresh parser.         *)
(* HTMLParser.feed calls the handlers in document order; an event records  *)
(* the call and, in raw, the text of the document the call stands for.     *)
(***************************************************************************)
StartTags ==
    { [tag |-> "script", attrs |-> <<>>],
      [tag |-> "Script", attrs |-> << <<"type", "t">> >>],
      [tag |-> "script", attrs |-> << <<"src", "x.js">> >>],
      [tag |-> "SCRIPT", attrs |-> << <<"type", "t">>, <<"SRC", "x.js">> >>],
      [tag |-> "div", attrs |-> <<>>] }
EndTags == {"script", "SCRIPT", "div"}
DataChunks == {<<"a">>}
CommentTexts == {<<"c">>}
EntityNames == {<<"l", "t">>}
CharCodes == {<<"3", "8">>}

Event(type, tag, attrs, data, raw) ==
    [type |-> type, tag |-> tag, attrs |-> attrs, data |-> data, raw |-> raw]

InitExtractor ==
    /\ parser = NewParser
    /\ events = <<>>
    /\ pc = "feed"
    /\ index_html = <<>>
    /\ html_content = <<>>
    /\ ar = <<>>
    /\ i = 0
    /\ script = <<>>
    /\ compressed_script = <<>>
    /\ tool = NoTool
    /\ resp = NoResp
    /\ full_size = 0
    /\ compressed_size = 0
    /\ fs = <<>>
    /\ css_files = <<>>
    /\ outfile = <<>>
    /\ lns = <<>>
    /\ diff = NoRatio

notParser == <<pc, index_html, html_content, ar, i, script, compressed_script,
               tool, resp, full_size, compressed_size, fs, css_files,
               outfile, lns, diff>>

FeedStartTag ==
    /\ pc = "feed"
    /\ Len(events) < MaxEvents
    /\ \E t \in StartTags :
         /\ parser' = handle_starttag(parser, t.tag, t.attrs)
         /\ events' = Append(events, Event("start", t.tag, t.attrs, <<>>, <<>>))
    /\ UNCHANGED notParser

FeedEndTag ==
    /\ pc = "feed"
    /\ Len(events) < MaxEvents
    /\ \E t \in EndTags :
         /\ parser' = handle_endtag(parser, t)
         /\ events' = Append(events, Event("end", t, <<>>, <<>>, <<>>))
    /\ UNCHANGED notParser

FeedData ==
    /\ pc = "feed"
    /\ Len(events) < MaxEvents
    /\ \E d \in DataChunks :
         /\ parser' = handle_data(parser, d)
         /\ events' = Append(events, Event("data", "", <<>>, d, d))
    /\ UNCHANGED notParser

FeedComment ==
    /\ pc = "feed"
    /\ Len(events) < MaxEvents
    /\ \E d \in CommentTexts :
         /\ parser' = handle_comment(parser, d)
         /\ events' = Append(events,
                Event("comment", "", <<>>, d,
                      <<"<", "!", "-", "-">> \o d \o <<"-", "-", ">">>))
    /\ UNCHANGED notParser

FeedEntityRef ==
    /\ pc = "feed"
    /\ Len(events) < MaxEvents
    /\ \E n \in EntityNames :
         /\ parser' = handle_entityref(parser, n)
         /\ events' = Append(events,
                Event("entityref", "", <<>>, n, <<"&">> \o n \o <<";">>))
    /\ UNCHANGED notParser

FeedCharRef ==
    /\ pc = "feed"
    /\ Len(events) < MaxEvents
    /\ \E n \in CharCodes :
         /\ parser' = handle_charref(parser, n)
         /\ events' = Append(events,
                Event("charref", "", <<>>, n, <<"&", "#">> \o n \o <<";">>))
    /\ UNCHANGED notParser

NextExtractor ==
    \/ FeedStartTag
    \/ FeedEndTag
    \/ FeedData
    \/ FeedComment
    \/ FeedEntityRef
    \/ FeedCharRef

SpecExtractor == InitExtractor /\ [][NextExtractor]_vars

(***************************************************************************)
(* What the fed document says, read off the history without the parser.    *)
(***************************************************************************)
ScriptNames == {"script", "Script", "SCRIPT"}
SrcNames == {"src", "SRC"}

IsScriptTag(e) == e.type \in {"start", "end"} /\ e.tag \in ScriptNames
OpensWithSrc(e) ==
    /\ e.type = "start"
    /\ e.tag \in ScriptNames
    /\ \E k \in 1..Len(e.attrs) : e.attrs[k][1] \in SrcNames
OpensWithoutSrc(e) ==
    /\ e.type = "start"
    /\ e.tag \in ScriptNames
    /\ ~\E k \in 1..Len(e.attrs) : e.attrs[k][1] \in SrcNames

\* the script tag that opened the element closed by the end tag at j, or 0
OpenerOf(h, j) ==
    LET before == {k \in 1..(j - 1) : IsScriptTag(h[k])}
    IN  IF before = {} THEN 0
        ELSE LET k == CHOOSE m \in before : \A n \in before : n <= m
             IN  IF h[k].type = "start" THEN k ELSE 0

\* the end tags that close a script element opened without src
ClosedInline(h) ==
    {j \in 1..Len(h) :
        /\ h[j].type = "end"
        /\ h[j].tag \in ScriptNames
        /\ OpenerOf(h, j) # 0
        /\ OpensWithoutSrc(h[OpenerOf(h, j)])}

\* the end tags that close a script element opened with src
ClosedExternal(h) ==
    {j \in 1..Len(h) :
        /\ h[j].type = "end"
        /\ h[j].tag \in ScriptNames
        /\ OpenerOf(h, j) # 0
        /\ OpensWithSrc(h[OpenerOf(h, j)])}

\* the k-th smallest member of a set of numbers
Nth(S, k) == CHOOSE j \in S : Cardinality({m \in S : m <= j}) = k

\* what is written between <script> and </script> for one body event
Rewrapped(e) ==
    CASE e.type = "data" -> e.data
      [] e.type = "comment" -> <<"<", "!", "-", "-">> \o e.data \o <<"-", "-", ">">>
      [] e.type = "entityref" -> <<"&">> \o e.data \o <<";">>
      [] e.type = "charref" -> <<"&", "#">> \o e.data \o <<";">>
      [] OTHER -> <<>>

RECURSIVE BodyText(_, _, _)
\* the pieces of the events lo..hi, concatenated in arrival order
BodyText(h, lo, hi) ==
    IF lo > hi THEN <<>> ELSE Rewrapped(h[lo]) \o BodyText(h, lo + 1, hi)

RECURSIVE RawText(_, _, _)
\* the document's own text for the events lo..hi
RawText(h, lo, hi) ==
    IF lo > hi THEN <<>> ELSE h[lo].raw \o RawText(h, lo + 1, hi)

IsBodyEvent(e) == e.type \in {"data", "comment", "entityref", "charref"}

\* C1: scripts holds exactly one entry per script element opened without src
\* and then closed, in document order, each made of that element's own
\* content; an element opened with src adds no entry and none of its text.
C1_ExtractsInlineOnly ==
    pc = "feed" =>
        LET closed == ClosedInline(events)
        IN  /\ Len(parser.scripts) = Cardinality(closed)
            /\ \A k \in 1..Cardinality(closed) :
                 LET j == Nth(closed, k)
                 IN  parser.scripts[k] =
                        BodyText(events, OpenerOf(events, j) + 1, j - 1)

\* C1 witness: an inline element was extracted, and an element opened with a
\* src attribute in capitals, holding stray text, was closed and left out
C1_Witness ==
    /\ pc = "feed"
    /\ Len(parser.scripts) = 1
    /\ \E j \in ClosedExternal(events) :
         /\ \E k \in (OpenerOf(events, j) + 1)..(j - 1) : events[k].type = "data"
         /\ events[OpenerOf(events, j)].tag = "SCRIPT"

\* C2: the string appended for an inline script whose body is text, comments
\* and references is the concatenation of the pieces in arrival order and
\* equals the original text between the tags.
C2_BodyRoundTrip ==
    pc = "feed" =>
        LET closed == ClosedInline(events)
        IN  \A k \in 1..Cardinality(closed) :
              LET j == Nth(closed, k)
                  o == OpenerOf(events, j)
              IN  (\A m \in (o + 1)..(j - 1) : IsBodyEvent(events[m]))
                  => /\ k <= Len(parser.scripts)
                     /\ parser.scripts[k] = RawText(events, o + 1, j - 1)

\* C2 witness: a script whose body mixes text, a comment and a reference
C2_Witness ==
    /\ pc = "feed"
    /\ Len(events) = 5
    /\ events[1].type = "start"
    /\ events[5].type = "end"
    /\ {events[2].type, events[3].type, events[4].type}
         \in {{"data", "comment", "entityref"}, {"data", "comment", "charref"}}
    /\ Len(parser.scripts) = 1
    /\ parser.scripts[1] = RawText(events, 2, 4)


(***************************************************************************)
(* The atoms of a document and what html.parser makes of them.             *)
(***************************************************************************)
ScriptOpen == "<script>"
ScriptClose == "</script>"
NL == "\n"

TagLocal == "<script src=\"a.js\"></script>"
TagMin == "<script src=\"a.min.js\"></script>"
TagModule == "<script src=\"a.mjs\"></script>"
TagRemote == "<script src=\"http://r.js\"></script>"
SrcTags == {TagLocal, TagMin, TagModule, TagRemote}

PathLocal == <<"a", ".", "j", "s">>
PathMin == <<"a", ".", "m", "i", "n", ".", "j", "s">>
PathModule == <<"a", ".", "m", "j", "s">>
PathRemote == <<"http://", "r", ".", "j", "s">>

\* m.group(1) of a line that matches main's pattern: the value of src
SrcOf(atom) ==
    CASE atom = TagLocal -> PathLocal
      [] atom = TagMin -> PathMin
      [] atom = TagModule -> PathModule
      [] atom = TagRemote -> PathRemote

LinkPlain == "<link rel=\"stylesheet\" href=\"s.css\">"
LinkFonts == "<link rel=\"stylesheet\" href=\"f.css\">"
LinkGone == "<link rel=\"stylesheet\" href=\"gone.css\">"
LinkRemote == "<link rel=\"stylesheet\" href=\"http://r.css\">"
LinkIcon == "<link rel=\"icon\" href=\"i.png\">"
LinkSwapped == "<link href=\"s.css\" rel=\"stylesheet\">"
Title == "<title>"
Slash == "/>"
LinkUpper == "<LINK REL=\"STYLESHEET\" HREF=\"s.css\">"
LinkTags ==
    {LinkPlain, LinkFonts, LinkGone, LinkRemote, LinkIcon, LinkSwapped, LinkUpper}
OtherTags == {Title, Slash}

\* HTMLParser.feed: the handler calls for a document, in document order.
\* cdata is html.parser's own mode between <script ...> and </script>,
\* where everything is passed to handle_data.
RECURSIVE FeedFrom(_, _, _, _)
FeedFrom(p, doc, k, cdata) ==
    IF k > Len(doc) THEN p
    ELSE LET a == doc[k]
         IN  IF a = ScriptClose
             THEN FeedFrom(handle_endtag(p, "script"), doc, k + 1, FALSE)
             ELSE IF cdata
             THEN FeedFrom(handle_data(p, <<a>>), doc, k + 1, TRUE)
             ELSE IF a = ScriptOpen
             THEN FeedFrom(handle_starttag(p, "script", <<>>), doc, k + 1, TRUE)
             ELSE IF a \in SrcTags
             THEN FeedFrom(
                      handle_endtag(
                          handle_starttag(p, "script", << <<"src", SrcOf(a)>> >>),
                          "script"),
                      doc, k + 1, FALSE)
             ELSE IF a \in LinkTags
             THEN FeedFrom(handle_starttag(p, "link", <<>>), doc, k + 1, FALSE)
             ELSE IF a \in OtherTags
             THEN FeedFrom(handle_starttag(p, "title", <<>>), doc, k + 1, FALSE)
             ELSE FeedFrom(handle_data(p, <<a>>), doc, k + 1, FALSE)

Feed(doc) == FeedFrom(NewParser, doc, 1, FALSE)

(***************************************************************************)
(* The external tools.  A run of terser is whether the tool was found by   *)
(* exists(), its exit status and what it wrote.                            *)
(***************************************************************************)
Stdouts == {<<>>, <<"z">>, <<"x">>}

ToolRuns ==
    {[found |-> FALSE, rc |-> 0, out |-> <<>>]}
    \cup {[found |-> TRUE, rc |-> 1, out |-> <<"z">>]}
    \cup {[found |-> TRUE, rc |-> 0, out |-> o] : o \in Stdouts}

\* variant: a failed run's output is used
compress_js_nofallback(text, run) ==
    IF ~run.found THEN text ELSE run.out

compress_js(text, run) ==
    IF ~run.found THEN text
    ELSE IF run.rc # 0 THEN text
    ELSE run.out

\* the record of a run: the function that made it and its loop iteration
Ran(caller, step, run) ==
    [called |-> caller, step |-> step, found |-> run.found, rc |-> run.rc,
     out |-> run.out]

(***************************************************************************)
(* main, up to the end of compress_inline_js.                              *)
(***************************************************************************)
InitMain(docs, disks) ==
    /\ index_html \in docs
    /\ html_content = index_html
    /\ ar = Feed(index_html).scripts
    /\ i = 1
    /\ pc = "inline"
    /\ parser = NewParser
    /\ events = <<>>
    /\ script = <<>>
    /\ compressed_script = <<>>
    /\ tool = NoTool
    /\ resp = NoResp
    /\ full_size = 0
    /\ compressed_size = 0
    /\ fs \in disks
    /\ css_files = <<>>
    /\ outfile = <<>>
    /\ lns = <<>>
    /\ diff = NoRatio

\* one iteration of compress_inline_js's loop
CompressInlineStep ==
    /\ pc = "inline"
    /\ i <= Len(ar)
    /\ \E run \in ToolRuns :
         LET c == compress_js(ar[i], run)
         IN  /\ tool' = Ran("compress_js", i, run)
             /\ script' = ar[i]
             /\ compressed_script' = c
             /\ IF c # ar[i]
                THEN /\ full_size' = full_size + Len(ar[i])
                     /\ compressed_size' = compressed_size + Len(c)
                     /\ html_content' = Replace(html_content, ar[i], c)
                ELSE UNCHANGED <<full_size, compressed_size, html_content>>
    /\ i' = i + 1
    /\ UNCHANGED <<parser, events, pc, index_html, ar, resp, fs, css_files,
                   outfile, lns, diff>>


(***************************************************************************)
(* The files on disk.  A path is looked up relative to the working         *)
(* directory, which is also the directory of every stylesheet.             *)
(***************************************************************************)
NoFile == [kind |-> "none", data |-> <<>>]
File(data) == [kind |-> "file", data |-> data]
Dir == [kind |-> "dir", data |-> <<>>]

FsGet(fsys, path) == IF path \in DOMAIN fsys THEN fsys[path] ELSE NoFile
FsPut(fsys, path, data) ==
    [q \in DOMAIN fsys \cup {path} |-> IF q = path THEN File(data) ELSE fsys[q]]

CssPlainPath == <<"s", ".", "c", "s", "s">>
CssFontsPath == <<"f", ".", "c", "s", "s">>
CssFontsOut == <<"f", ".", "m", "i", "n", ".", "c", "s", "s">>
CssGonePath == <<"g", "o", "n", "e", ".", "c", "s", "s">>
CssRemotePath == <<"http://", "r", ".", "c", "s", "s">>
FontPath == <<"f", ".", "w", "o", "f", "f">>
FontGonePath == <<"g", ".", "t", "t", "f">>
BaseDir == <<>>

\* m.group(1) of re.findall's pattern, for the link tags it matches
HrefOf(atom) ==
    CASE atom = LinkPlain -> CssPlainPath
      [] atom = LinkFonts -> CssFontsPath
      [] atom = LinkGone -> CssGonePath
      [] atom = LinkRemote -> CssRemotePath

(***************************************************************************)
(* embed_fonts_in_css.                                                     *)
(***************************************************************************)
RECURSIVE LStrip(_, _)
LStrip(s, chars) ==
    IF s # <<>> /\ Head(s) \in chars THEN LStrip(Tail(s), chars) ELSE s

RECURSIVE RStrip(_, _)
RStrip(s, chars) ==
    IF s # <<>> /\ s[Len(s)] \in chars
    THEN RStrip(SubSeq(s, 1, Len(s) - 1), chars)
    ELSE s

\* s.strip(chars)
Strip(s, chars) == RStrip(LStrip(s, chars), chars)

\* urllib.parse.unquote on the escapes the model uses
Unquote(s) == [k \in 1..Len(s) |-> IF s[k] = "%20" THEN " " ELSE s[k]]

\* Path.suffix.lower().lstrip('.')
Ext(path) ==
    LET dots == {k \in 2..Len(path) : path[k] = "."}
    IN  IF dots = {} \/ path[Len(path)] = "." THEN <<>>
        ELSE LET d == CHOOSE k \in dots : \A m \in dots : m <= k
             IN  SubSeq(path, d + 1, Len(path))

Mime(ext) ==
    CASE ext = <<"w", "o", "f", "f", "2">> -> "font/woff2"
      [] ext = <<"w", "o", "f", "f">> -> "font/woff"
      [] ext = <<"t", "t", "f">> -> "font/ttf"
      [] ext = <<"o", "t", "f">> -> "font/otf"
      [] ext = <<"e", "o", "t">> -> "application/vnd.ms-fontobject"
      [] ext = <<"s", "v", "g">> -> "image/svg+xml"
      [] OTHER -> "application/octet-stream"

\* base64.b64encode(data).decode('utf-8'), kept symbolic
B64(data) == <<"b64[">> \o data \o <<"]">>

\* a result of text, or an exception raised
Text(t) == [err |-> FALSE, text |-> t]
Raised == [err |-> TRUE, text |-> <<>>]

\* variant: a url that is not embedded is written back in normalised form
replace_font_url_requote(group0, group1, fsys) ==
    LET stripped == Strip(group1, {"'", "\""})
        q == Find(stripped, <<"?">>, 1)
        url == IF q = 0 THEN stripped ELSE SubSeq(stripped, 1, q - 1)
        font == FsGet(fsys, Unquote(url))
    IN  IF font.kind = "file"
        THEN Text(<<"url(", "'", "data:", Mime(Ext(Unquote(url))), ";base64,">>
                  \o B64(font.data) \o <<"'", ")">>)
        ELSE IF font.kind = "dir" THEN Raised
        ELSE Text(<<"url(", "'">> \o url \o <<"'", ")">>)

\* group0 is match.group(0), group1 is match.group(1)
replace_font_url(group0, group1, fsys) ==
    LET stripped == Strip(group1, {"'", "\""})
        q == Find(stripped, <<"?">>, 1)
        url == IF q = 0 THEN stripped ELSE SubSeq(stripped, 1, q - 1)
        font_path == Unquote(url)
        font == FsGet(fsys, font_path)
    IN  IF StartsWith(url, <<"data:">>) THEN Text(group0)
        ELSE IF font.kind = "none" THEN Text(group0)
        ELSE IF font.kind = "dir" THEN Raised
        ELSE Text(<<"url(", "'", "data:", Mime(Ext(font_path)), ";base64,">>
                  \o B64(font.data) \o <<"'", ")">>)

\* where the pattern url\(([^)]+)\) matches at or after k: <<start, end>>
UrlMatch(css, k) ==
    LET starts == {p \in k..Len(css) :
                     /\ css[p] = "url("
                     /\ p + 1 <= Len(css)
                     /\ css[p + 1] # ")"
                     /\ \E q \in (p + 2)..Len(css) : css[q] = ")"}
    IN  IF starts = {} THEN <<0, 0>>
        ELSE LET p == CHOOSE m \in starts : \A n \in starts : m <= n
             IN  <<p, Find(css, <<")">>, p + 2)>>

RECURSIVE SubUrls(_, _, _)
\* re.sub(r"url\(([^)]+)\)", replace_font_url, css) from position k on
SubUrls(css, k, fsys) ==
    LET m == UrlMatch(css, k)
    IN  IF m[1] = 0 THEN Text(SubSeq(css, k, Len(css)))
        ELSE LET r == replace_font_url(SubSeq(css, m[1], m[2]),
                                       SubSeq(css, m[1] + 1, m[2] - 1), fsys)
                 rest == SubUrls(css, m[2] + 1, fsys)
             IN  IF r.err \/ rest.err THEN Raised
                 ELSE Text(SubSeq(css, k, m[1] - 1) \o r.text \o rest.text)

\* the files after embed_fonts_in_css(css_file, output_file), or Raised
embed_fonts_in_css(fsys, css_file, output_file) ==
    LET css_out == SubUrls(FsGet(fsys, css_file).data, 1, fsys)
    IN  IF css_out.err THEN [err |-> TRUE, fs |-> fsys]
        ELSE [err |-> FALSE, fs |-> FsPut(fsys, output_file, css_out.text)]


(***************************************************************************)
(* inline_css.  The replacement pattern                                    *)
(*     <link.*rel="stylesheet".*href="{css_file}".*>   (IGNORECASE)        *)
(* is matched against a line through the pieces of it an atom contains, in *)
(* the order they appear in the atom: L for "<link", R for the rel         *)
(* attribute, H for the href attribute with this css_file, G for ">".      *)
(***************************************************************************)
RelThenHref == {LinkPlain, LinkFonts, LinkGone, LinkRemote, LinkUpper}
HrefAny(atom) == IF atom = LinkUpper THEN CssPlainPath ELSE HrefOf(atom)

AtomTokens(atom, css_file) ==
    IF atom \in RelThenHref
    THEN IF HrefAny(atom) = css_file THEN <<"L", "R", "H", "G">>
         ELSE <<"L", "R", "G">>
    ELSE IF atom = LinkSwapped
    THEN IF css_file = CssPlainPath THEN <<"L", "H", "R", "G">>
         ELSE <<"L", "R", "G">>
    ELSE IF atom = LinkIcon THEN <<"L", "G">>
    ELSE IF atom \in SrcTags THEN <<"G", "G">>
    ELSE IF atom \in {ScriptOpen, ScriptClose, Title, Slash, "<style>", "</style>"}
    THEN <<"G">>
    ELSE <<>>

RECURSIVE LineTokens(_, _, _)
\* the tokens of a line from atom k on, each with the atom it is in
LineTokens(line, k, css_file) ==
    IF k > Len(line) THEN <<>>
    ELSE LET toks == AtomTokens(line[k], css_file)
         IN  [n \in 1..Len(toks) |-> [tok |-> toks[n], at |-> k]]
             \o LineTokens(line, k + 1, css_file)

\* the atoms of a line the pattern matches: <<first, last>>, or <<0, 0>>
LinkMatch(line, css_file) ==
    LET ts == LineTokens(line, 1, css_file)
        n == Len(ts)
        starts == {l \in 1..n :
                     /\ ts[l].tok = "L"
                     /\ \E r \in (l + 1)..n :
                          /\ ts[r].tok = "R"
                          /\ \E h \in (r + 1)..n :
                               /\ ts[h].tok = "H"
                               /\ \E g \in (h + 1)..n : ts[g].tok = "G"}
        ends == {g \in 1..n : ts[g].tok = "G"}
    IN  IF starts = {} THEN <<0, 0>>
        ELSE <<ts[CHOOSE l \in starts : \A m \in starts : l <= m].at,
               ts[CHOOSE g \in ends : \A m \in ends : m <= g].at>>

\* re.sub on one line: "." does not match a newline, and the greedy ".*>"
\* leaves no ">" behind on the line for a second match
SubLine(line, css_file, style_tag) ==
    LET m == LinkMatch(line, css_file)
    IN  IF m[1] = 0 THEN line
        ELSE SubSeq(line, 1, m[1] - 1) \o style_tag
             \o SubSeq(line, m[2] + 1, Len(line))

RECURSIVE JoinLines(_)
\* "\n".join(lines)
JoinLines(lines) ==
    IF Len(lines) = 1 THEN lines[1]
    ELSE lines[1] \o <<NL>> \o JoinLines(Tail(lines))

\* re.sub(replace_reg, lambda _: style_tag, html, flags=re.IGNORECASE)
SubLink(html, css_file, style_tag) ==
    LET lines == Split(html, NL)
    IN  JoinLines([k \in 1..Len(lines) |-> SubLine(lines[k], css_file, style_tag)])

\* re.findall(r'<link\s+rel="stylesheet"\s+href="([^"]+)"', html)
FoundByFindAll(atom) == atom \in {LinkPlain, LinkFonts, LinkGone, LinkRemote}
FindAllLinks(html) ==
    LET found == SelectSeq(html, FoundByFindAll)
    IN  [k \in 1..Len(found) |-> HrefOf(found[k])]

IsRemote(url) == StartsWith(url, <<"http://">>) \/ StartsWith(url, <<"https://">>)

HasUrl(css) == UrlMatch(css, 1)[1] # 0

StyleTag(css_file, css_content) ==
    <<"<style>", NL, "/* Content from ">> \o css_file \o <<" */", NL, " ">>
    \o css_content \o <<NL, "</style>">>

DotCss == <<".", "c", "s", "s">>
DotMinCss == <<".", "m", "i", "n", ".", "c", "s", "s">>

\* compress_inline_js returns; inline_css starts with its findall
InlineReturn ==
    /\ pc = "inline"
    /\ i > Len(ar)
    /\ pc' = "css"
    /\ css_files' = FindAllLinks(html_content)
    /\ i' = 1
    /\ UNCHANGED <<parser, events, index_html, html_content, ar, script,
                   compressed_script, tool, resp, full_size, compressed_size, fs,
                   outfile, lns, diff>>

\* one iteration of inline_css's loop
InlineCssStep ==
    /\ pc = "css"
    /\ i <= Len(css_files)
    /\ LET css_file == css_files[i]
           css == FsGet(fs, css_file)
           new_css_file == Replace(css_file, DotCss, DotMinCss)
           embedded == embed_fonts_in_css(fs, css_file, new_css_file)
       IN  IF IsRemote(css_file) \/ css.kind = "none"
           THEN /\ i' = i + 1
                /\ UNCHANGED <<pc, fs, html_content>>
           ELSE IF HasUrl(css.data)
           THEN IF embedded.err
                THEN /\ pc' = "crashed"
                     /\ UNCHANGED <<i, fs, html_content>>
                ELSE /\ fs' = embedded.fs
                     /\ html_content' =
                          SubLink(html_content, css_file,
                                  StyleTag(css_file, FsGet(embedded.fs, new_css_file).data))
                     /\ i' = i + 1
                     /\ pc' = pc
           ELSE /\ html_content' =
                     SubLink(html_content, css_file, StyleTag(css_file, css.data))
                /\ i' = i + 1
                /\ UNCHANGED <<pc, fs>>
    /\ UNCHANGED <<parser, events, index_html, ar, script, compressed_script,
                   tool, resp, full_size, compressed_size, css_files, outfile,
                   lns, diff>>

\* inline_css returns; main splits the text and opens standalone.html
CssReturn ==
    /\ pc = "css"
    /\ i > Len(css_files)
    /\ pc' = "lines"
    /\ lns' = Split(html_content, NL)
    /\ outfile' = <<>>
    /\ i' = 1
    /\ UNCHANGED <<parser, events, index_html, html_content, ar, script,
                   compressed_script, tool, resp, full_size, compressed_size, fs,
                   css_files, diff>>


(***************************************************************************)
(* Inputs: the documents and the disks the specifications start from.      *)
(***************************************************************************)
\* every concatenation of 1..n pieces
Texts(pieces, n) ==
    {Join(f) : f \in UNION {[1..m -> pieces] : m \in 1..n}}

UrlData == <<"url(", "data:", "A", ")">>
UrlDataQuoted == <<"url(", "\"", "data:", "A", "\"", ")">>
UrlFont == <<"url(">> \o FontPath \o <<")">>
UrlFontQuery == <<"url(", "'">> \o FontPath \o <<"?", "v", "'", ")">>
UrlGone == <<"url(">> \o FontGonePath \o <<")">>
UrlDir == <<"url(", "'", "'", ")">>
CssPieces ==
    {<<"b">>, UrlData, UrlDataQuoted, UrlFont, UrlFontQuery, UrlGone, UrlDir}

\* the disk: the scripts, the stylesheets, the font and the directory itself
Disk(fontsCss, minJs) ==
    [p \in {PathLocal, PathModule, PathMin, CssPlainPath, CssFontsPath,
            FontPath, BaseDir} |->
        CASE p = PathLocal -> File(<<"x", "y">>)
          [] p = PathModule -> File(<<"x", "y">>)
          [] p = PathMin -> minJs
          [] p = CssPlainPath -> File(<<"b">>)
          [] p = CssFontsPath -> File(fontsCss)
          [] p = FontPath -> File(<<"w">>)
          [] p = BaseDir -> Dir]

Disks == {Disk(UrlFont, NoFile), Disk(UrlFont, File(<<"o">>))}

InlineItems ==
    { <<"x">>,
      <<ScriptOpen, ScriptClose>>,
      <<ScriptOpen, "x", ScriptClose>>,
      <<ScriptOpen, "x", "y", ScriptClose>> }

CssAtoms ==
    {LinkPlain, LinkFonts, LinkGone, LinkRemote, LinkIcon, LinkSwapped,
     LinkUpper, Title, "x", NL}

(***************************************************************************)
(* SpecInline: main from its start to the end of compress_inline_js, on    *)
(* documents of inline scripts and text.                                   *)
(***************************************************************************)
InitInline == InitMain(Texts(InlineItems, MaxItems), {Disk(UrlFont, NoFile)})
NextInline == CompressInlineStep \/ InlineReturn
SpecInline == InitInline /\ [][NextInline]_vars

(***************************************************************************)
(* SpecCss: main up to the end of inline_css, on documents of link tags.   *)
(***************************************************************************)
InitCss ==
    InitMain(UNION {[1..n -> CssAtoms] : n \in 1..MaxCssItems},
             {Disk(UrlFont, NoFile)})
NextCss == InlineReturn \/ InlineCssStep \/ CssReturn
SpecCss == InitCss /\ [][NextCss]_vars

(***************************************************************************)
(* SpecFonts: the same, on one link to a stylesheet of url(...) tokens.    *)
(***************************************************************************)
InitFonts ==
    InitMain({<<LinkFonts>>},
             {Disk(css, NoFile) : css \in Texts(CssPieces, MaxCssTokens)})
SpecFonts == InitFonts /\ [][NextCss]_vars


(***************************************************************************)
(* Claims about compress_js and compress_inline_js (SpecInline).           *)
(***************************************************************************)
\* an iteration of compress_inline_js whose terser run was missing or failed
InlineStepFellBack ==
    /\ pc = "inline"
    /\ tool' # tool
    /\ tool'.called = "compress_js"
    /\ ~tool'.found \/ tool'.rc # 0

\* an iteration of compress_inline_js that got a different text back
InlineStepChanged ==
    /\ pc = "inline"
    /\ tool' # tool
    /\ tool'.called = "compress_js"
    /\ compressed_script' # script'

\* C3: when terser is not found or exits non-zero, compress_js returns the
\* script itself, the document and both totals stay as they are, and the
\* loop goes on to the next script.
C3_FallbackKeepsOriginal ==
    [][InlineStepFellBack =>
          /\ script' = ar[i]
          /\ compressed_script' = script'
          /\ html_content' = html_content
          /\ full_size' = full_size
          /\ compressed_size' = compressed_size
          /\ pc' = "inline"
          /\ i' = i + 1]_vars

\* C3 witness: terser ran, failed and wrote something; nothing changed and
\* there is a next script to go on with
C3_Witness ==
    /\ pc = "inline"
    /\ tool.called = "compress_js"
    /\ tool.found
    /\ tool.rc # 0
    /\ tool.out # <<>>
    /\ compressed_script = script
    /\ html_content = index_html
    /\ full_size = 0
    /\ i = tool.step + 1
    /\ i <= Len(ar)

RECURSIVE OccurrencesFrom(_, _, _)
\* the places where old is found when reading h left to right from k and
\* going on after each find (for an empty old: every place)
OccurrencesFrom(h, old, k) ==
    LET here == {p \in k..(Len(h) - Len(old) + 1) :
                    \A n \in 1..Len(old) : h[p + n - 1] = old[n]}
    IN  IF here = {} THEN <<>>
        ELSE LET p == CHOOSE m \in here : \A n \in here : m <= n
             IN  <<p>> \o OccurrencesFrom(h, old, p + Len(old))

Occurrences(h, old) ==
    IF old = <<>> THEN [k \in 1..(Len(h) + 1) |-> k]
    ELSE OccurrencesFrom(h, old, 1)

RECURSIVE Concat(_, _, _)
\* parts[lo] \o ... \o parts[hi], halving the range
Concat(parts, lo, hi) ==
    IF lo > hi THEN <<>>
    ELSE IF lo = hi THEN parts[lo]
    ELSE LET mid == (lo + hi) \div 2
         IN  Concat(parts, lo, mid) \o Concat(parts, mid + 1, hi)

\* h with the text of length len at each of the places replaced by new:
\* what is before the first place, new, what is between the first and the
\* second place, new, ..., what is after the last place
Rebuilt(h, places, len, new) ==
    LET k == Len(places)
        kept(t) == SubSeq(h,
                          IF t = 0 THEN 1 ELSE places[t] + len,
                          IF t = k THEN Len(h) ELSE places[t + 1] - 1)
        parts == [j \in 1..(2 * k + 1) |->
                     IF j % 2 = 1 THEN kept((j - 1) \div 2) ELSE new]
    IN  Concat(parts, 1, 2 * k + 1)

CssStepInlined ==
    /\ pc = "css"
    /\ pc' = "css"
    /\ i' = i + 1
    /\ ~IsRemote(css_files[i])
    /\ FsGet(fs, css_files[i]).kind = "file"

\* the link tags that name the stylesheet css_file
LinksTo(css_file) ==
    {a \in {LinkPlain, LinkFonts, LinkGone, LinkRemote} : HrefOf(a) = css_file}
    \cup (IF css_file = CssPlainPath THEN {LinkUpper, LinkSwapped} ELSE {})

\* html with every atom in tags replaced by block, all else kept
TagsReplaced(html, tags, block) ==
    Concat([k \in 1..Len(html) |-> IF html[k] \in tags THEN block ELSE <<html[k]>>],
           1, Len(html))

\* the <style> block for a stylesheet whose text after the optional
\* font embedding is css
StyleBlockHolds(block, css) ==
    /\ Len(block) >= Len(css) + 2
    /\ block[1] = "<style>"
    /\ block[Len(block)] = "</style>"
    /\ \E p \in 1..(Len(block) - Len(css) + 1) :
          SubSeq(block, p, p + Len(css) - 1) = css

\* C9 as claimed: inlining a stylesheet replaces exactly the text of its
\* link tag by a <style> block holding the CSS, every other character of
\* the document stays, and fonts are embedded iff the CSS has a url(...).
C9_OnlyLinkTagReplaced ==
    [][CssStepInlined =>
          LET css_file == css_files[i]
              css == FsGet(fs, css_file).data
              used == IF HasUrl(css)
                      THEN FsGet(fs', Replace(css_file, DotCss, DotMinCss)).data
                      ELSE css
              block == StyleTag(css_file, used)
          IN  /\ StyleBlockHolds(block, used)
              /\ (fs' # fs) <=> HasUrl(css)
              /\ \E tags \in SUBSET LinksTo(css_file) :
                    html_content' = TagsReplaced(html_content, tags, block)]_vars

\* the url(...) tokens that embed_fonts_in_css has to leave as they are
KeptUrls == {UrlData, UrlDataQuoted, UrlGone}
\* what a url(...) token naming the font on disk is rewritten to
EmbeddedFont ==
    <<"url(", "'", "data:", "font/woff", ";base64,", "b64[", "w", "]", "'", ")">>

RECURSIVE ExpectedCss(_, _)
\* the stylesheet from atom k on, its url(...) tokens that are data: URIs
\* or name no file kept, the others embedded
ExpectedCss(css, k) ==
    LET opens == {p \in k..Len(css) : css[p] = "url("}
    IN  IF opens = {} THEN SubSeq(css, k, Len(css))
        ELSE LET p == CHOOSE m \in opens : \A n \in opens : m <= n
                 close == CHOOSE q \in (p + 1)..Len(css) :
                             /\ css[q] = ")"
                             /\ \A n \in (p + 1)..(q - 1) : css[n] # ")"
                 token == SubSeq(css, p, close)
             IN  SubSeq(css, k, p - 1)
                 \o (IF token \in KeptUrls THEN token ELSE EmbeddedFont)
                 \o ExpectedCss(css, close + 1)

FontsCssIn == FsGet(fs, CssFontsPath).data
FontsCssOut == FsGet(fs, CssFontsOut)
HasToken(css, token) == Find(css, token, 1) # 0

\* C10: embed_fonts_in_css writes the CSS with nothing changed but the
\* url(...) tokens whose target is a file on disk; a token that is a data:
\* URI or names no file is written as it stood, so CSS whose tokens are all
\* data: URIs is written unchanged.
C10_OnlyExistingFontsEmbedded ==
    FontsCssOut.kind = "file" =>
        /\ FontsCssOut.data = ExpectedCss(FontsCssIn, 1)
        /\ (~HasToken(FontsCssIn, UrlFont) /\ ~HasToken(FontsCssIn, UrlFontQuery))
              => FontsCssOut.data = FontsCssIn

\* C10 witness: a stylesheet with a data: URI, a missing font and a font on
\* disk was rewritten, and only the last of the three was changed
C10_Witness ==
    /\ FontsCssOut.kind = "file"
    /\ FontsCssIn = UrlDataQuoted \o UrlGone \o UrlFontQuery
    /\ FontsCssOut.data = UrlDataQuoted \o UrlGone \o EmbeddedFont


(***************************************************************************)
(* main's scan of the lines, and the report of __main__.                   *)
(***************************************************************************)
DotJs == <<".", "j", "s">>
DotMinJs == <<".", "m", "i", "n", ".", "j", "s">>
MinifiedPath == <<"standalone.min.html">>

\* re.match(r'\s*<script\s+src="(.*)"\s*>\s*</script>', ln) is not None
Matches(ln) ==
    LET rest == LStrip(ln, {" "})
    IN  rest # <<>> /\ rest[1] \in SrcTags

\* m.group(1): "(.*)" is greedy and runs to the last src tag of the line
SrcPath(ln) ==
    LET rest == LStrip(ln, {" "})
        tags == {k \in 1..Len(rest) : rest[k] \in SrcTags}
        last == CHOOSE k \in tags : \A n \in tags : n <= k
    IN  IF last = 1 THEN SrcOf(rest[1])
        ELSE SrcOf(rest[1]) \o <<"\"></script>">> \o SubSeq(rest, 2, last - 1)
             \o <<"<script src=\"">> \o SrcOf(rest[last])

\* compress_file: what it returns (ok and name), and the disk and the
\* totals after it
compress_file(fsys, filename, run, full, compressed) ==
    LET output_filename == Replace(filename, DotJs, DotMinJs)
        written == FsPut(fsys, output_filename, run.out)
    IN  IF ~run.found \/ run.rc # 0
        THEN [ok |-> FALSE, name |-> <<>>, fs |-> fsys,
              full_size |-> full, compressed_size |-> compressed]
        ELSE [ok |-> TRUE, name |-> output_filename, fs |-> written,
              full_size |-> full + Len(FsGet(written, filename).data),
              compressed_size |-> compressed + Len(FsGet(written, output_filename).data)]

\* the block main writes for a script read from disk
LocalBlock(external_file, data) ==
    <<ScriptOpen, NL, "// Read from: ">> \o external_file \o <<NL>> \o data
    \o <<NL, ScriptClose, NL>>

\* the block main writes for a script fetched over HTTP
RemoteBlock(external_file, data) ==
    <<ScriptOpen, NL, "// Fetched from: ">> \o external_file \o <<NL>> \o data
    \o <<NL, ScriptClose, NL>>

\* a line that does not match is written back with a newline
CopyLine ==
    /\ pc = "lines"
    /\ i <= Len(lns)
    /\ ~Matches(lns[i])
    /\ outfile' = outfile \o lns[i] \o <<NL>>
    /\ i' = i + 1
    /\ UNCHANGED <<parser, events, pc, index_html, html_content, ar, script,
                   compressed_script, tool, resp, full_size, compressed_size,
                   fs, css_files, lns, diff>>

\* a remote script whose GET answers 200
FetchOk ==
    /\ pc = "lines"
    /\ i <= Len(lns)
    /\ Matches(lns[i])
    /\ IsRemote(SrcPath(lns[i]))
    /\ resp' = [line |-> i, status |-> 200]
    /\ outfile' = outfile \o RemoteBlock(SrcPath(lns[i]), <<"r">>)
    /\ i' = i + 1
    /\ UNCHANGED <<parser, events, pc, index_html, html_content, ar, script,
                   compressed_script, tool, full_size, compressed_size, fs,
                   css_files, lns, diff>>

\* variant: a failed fetch skips the line and the scan goes on
FetchFailed_continue ==
    /\ pc = "lines"
    /\ i <= Len(lns)
    /\ Matches(lns[i])
    /\ IsRemote(SrcPath(lns[i]))
    /\ resp' = [line |-> i, status |-> 404]
    /\ i' = i + 1
    /\ UNCHANGED <<parser, events, pc, index_html, html_content, ar, script,
                   compressed_script, tool, full_size, compressed_size, fs,
                   css_files, outfile, lns, diff>>

\* a remote script whose GET answers something else: break
FetchFailed ==
    /\ pc = "lines"
    /\ i <= Len(lns)
    /\ Matches(lns[i])
    /\ IsRemote(SrcPath(lns[i]))
    /\ resp' = [line |-> i, status |-> 404]
    /\ pc' = "report"
    /\ UNCHANGED <<parser, events, index_html, html_content, ar, i, script,
                   compressed_script, tool, full_size, compressed_size, fs,
                   css_files, outfile, lns, diff>>

\* a local script: compressed first unless its name ends in .min.js, then
\* read and written; open() raises when the file to read is not there
LocalScript ==
    /\ pc = "lines"
    /\ i <= Len(lns)
    /\ Matches(lns[i])
    /\ ~IsRemote(SrcPath(lns[i]))
    /\ \E run \in ToolRuns :
         LET path == SrcPath(lns[i])
             call == ~EndsWith(path, DotMinJs)
             done == IF call
                     THEN compress_file(fs, path, run, full_size, compressed_size)
                     ELSE [ok |-> FALSE, name |-> <<>>, fs |-> fs,
                           full_size |-> full_size,
                           compressed_size |-> compressed_size]
             external_file == IF done.ok THEN done.name ELSE path
             read == FsGet(done.fs, external_file)
         IN  \* terser exits 0 only if it could read its input
             /\ call /\ run.found /\ run.rc = 0 => FsGet(fs, path).kind = "file"
             /\ ~call => run = CHOOSE r \in ToolRuns : TRUE
             /\ tool' = IF call THEN Ran("compress_file", i, run) ELSE tool
             /\ fs' = done.fs
             /\ full_size' = done.full_size
             /\ compressed_size' = done.compressed_size
             /\ IF read.kind = "file"
                THEN /\ outfile' = outfile \o LocalBlock(external_file, read.data)
                     /\ i' = i + 1
                     /\ pc' = pc
                ELSE /\ pc' = "crashed"
                     /\ UNCHANGED <<outfile, i>>
    /\ UNCHANGED <<parser, events, index_html, html_content, ar, script,
                   compressed_script, resp, css_files, lns, diff>>

\* the loop is over; main reports the size of standalone.html and returns
ScanDone ==
    /\ pc = "lines"
    /\ i > Len(lns)
    /\ pc' = "report"
    /\ UNCHANGED <<parser, events, index_html, html_content, ar, i, script,
                   compressed_script, tool, resp, full_size, compressed_size,
                   fs, css_files, outfile, lns, diff>>

\* variant: the ratio is computed without looking at full_size first
Ratio_unguarded(compressed, full) ==
    [ok |-> full # 0, num |-> compressed * 100, den |-> full]

\* (compressed_size/full_size) * 100 if full_size > 0 else 0, as a fraction
Ratio(compressed, full) ==
    IF full > 0 THEN [ok |-> TRUE, num |-> compressed * 100, den |-> full]
    ELSE [ok |-> TRUE, num |-> 0, den |-> 1]

\* __main__ after main(): the ratio is computed and printed
Report ==
    /\ pc = "report"
    /\ diff' = Ratio(compressed_size, full_size)
    /\ pc' = IF diff'.ok THEN "final" ELSE "crashed"
    /\ UNCHANGED <<parser, events, index_html, html_content, ar, i, script,
                   compressed_script, tool, resp, full_size, compressed_size,
                   fs, css_files, outfile, lns>>

\* final_pass_check: html-minifier-next, if found, writes another file
FinalPass ==
    /\ pc = "final"
    /\ pc' = "done"
    /\ \E found \in BOOLEAN :
         fs' = IF found THEN FsPut(fs, MinifiedPath, <<"m">>) ELSE fs
    /\ UNCHANGED <<parser, events, index_html, html_content, ar, i, script,
                   compressed_script, tool, resp, full_size, compressed_size,
                   css_files, outfile, lns, diff>>

(***************************************************************************)
(* Spec: the whole program, on documents made of lines.                    *)
(***************************************************************************)
LineItems ==
    { <<" ", "x">>,
      <<ScriptOpen, "x", ScriptClose>>,
      <<" ", TagLocal, "x">>,
      <<TagMin>>,
      <<TagModule>>,
      <<TagRemote>>,
      <<"x", TagLocal>>,
      <<TagLocal, TagMin>>,
      <<LinkPlain>> }

LineDocs ==
    LET joined == {JoinLines(f) : f \in UNION {[1..n -> LineItems] : n \in 1..MaxLines}}
    IN  joined \cup {d \o <<NL>> : d \in joined}

Init == InitMain(LineDocs, Disks)

Next ==
    \/ CompressInlineStep
    \/ InlineReturn
    \/ InlineCssStep
    \/ CssReturn
    \/ CopyLine
    \/ FetchOk
    \/ FetchFailed
    \/ LocalScript
    \/ ScanDone
    \/ Report
    \/ FinalPass

Spec == Init /\ [][Next]_vars


(***************************************************************************)
(* Claims about main's scan and the report (Spec).                         *)
(***************************************************************************)
Finished == pc \in {"report", "final", "done"}

\* no line of index.html matches the <script src=...></script> pattern
NoLineMatches ==
    LET lines == Split(index_html, NL)
    IN  \A k \in 1..Len(lines) : ~Matches(lines[k])

\* C4 as claimed: when no line matches the script-src pattern, no stylesheet
\* was inlined and no inline script was changed, standalone.html is
\* byte-identical to index.html, the end of the last line included.
C4_OutputIdentical ==
    (Finished /\ NoLineMatches /\ html_content = index_html)
        => outfile = index_html

\* the scan has just got a response that is not 200
FetchFailedNow ==
    /\ pc = "lines"
    /\ resp' # resp
    /\ resp'.status # 200

\* a response that is not 200 has been received
AbortedScan == resp.status \notin {0, 200}

\* C5: once a remote script's response is not 200, nothing more is written
\* to standalone.html and no later line is examined, fetched or compressed;
\* the file holds what was written for the lines before the failing one.
C5_FailedFetchStopsScan ==
    /\ [][FetchFailedNow =>
             /\ outfile' = outfile
             /\ resp'.line = i
             /\ i' = i
             /\ pc' = "report"]_vars
    /\ [][AbortedScan =>
             /\ UNCHANGED <<outfile, i, lns, resp, tool, full_size, compressed_size>>
             /\ \A path \in DOMAIN fs : fs'[path] = fs[path]]_vars
    /\ [](AbortedScan => Finished /\ i = resp.line)

\* C5 witness: the run ended after a 404 on a line that had lines written
\* before it and lines left after it
C5_Witness ==
    /\ pc = "done"
    /\ resp.status = 404
    /\ resp.line > 1
    /\ resp.line < Len(lns)
    /\ i = resp.line
    /\ outfile # <<>>

\* the scan has just finished a line that names a local script
LocalStepDone ==
    /\ pc = "lines"
    /\ i <= Len(lns)
    /\ Matches(lns[i])
    /\ ~IsRemote(SrcPath(lns[i]))
    /\ i' = i + 1

\* C7 as claimed: for a line naming a local script, compress_file is called
\* iff the path does not end in .min.js; the text inlined is that of the
\* compressed sibling when compress_file succeeded and of the original
\* otherwise; the original file is never modified; and the line becomes
\* exactly one block <script>, // Read from: <path used>, the text, </script>.
C7_LocalScriptInlined ==
    [][LocalStepDone =>
          LET path == SrcPath(lns[i])
              called == tool' # tool /\ tool'.called = "compress_file"
              succeeded == called /\ tool'.found /\ tool'.rc = 0
          IN  /\ called <=> ~EndsWith(path, DotMinJs)
              /\ fs'[path] = fs[path]
              /\ IF succeeded
                 THEN \E sibling \in DOMAIN fs' \ {path} :
                        outfile' = outfile
                            \o <<ScriptOpen, NL, "// Read from: ">> \o sibling
                            \o <<NL>> \o fs'[sibling].data
                            \o <<NL, ScriptClose, NL>>
                 ELSE outfile' = outfile
                            \o <<ScriptOpen, NL, "// Read from: ">> \o path
                            \o <<NL>> \o fs[path].data
                            \o <<NL, ScriptClose, NL>>]_vars

\* a step that changes a total adds to it, and is a compression that
\* succeeded
LedgerStepOk ==
    (full_size' # full_size \/ compressed_size' # compressed_size) =>
        /\ full_size' >= full_size
        /\ compressed_size' >= compressed_size
        /\ tool' # tool
        /\ \/ tool'.called = "compress_file" /\ tool'.found /\ tool'.rc = 0
           \/ tool'.called = "compress_js" /\ compressed_script' # script'

\* C8: the totals start at 0, only a compression that succeeded adds to
\* them and nothing takes from them; the ratio reported is
\* compressed_size / full_size * 100 when full_size > 0 and 0 otherwise, so
\* it is never a division by zero.
C8_LedgerAndRatio ==
    /\ full_size = 0 /\ compressed_size = 0
    /\ [][LedgerStepOk]_vars
    /\ [](diff.ok /\ diff.den > 0)
    /\ [](pc \in {"final", "done"} =>
            IF full_size > 0
            THEN diff.num * full_size = compressed_size * 100 * diff.den
            ELSE diff.num = 0)

\* C8 witness: a run in which terser was tried and failed, so that nothing
\* was compressed, reported 0
C8_Witness ==
    /\ pc = "done"
    /\ tool.called = "compress_file"
    /\ tool.found
    /\ tool.rc # 0
    /\ full_size = 0
    /\ compressed_size = 0
    /\ diff = [ok |-> TRUE, num |-> 0, den |-> 1]

=============================================================================
